---- MODULE Spec2Model ----
(***************************************************************************)
(* A model of the FAT file system of src/fatfs.c: the image on disk        *)
(* (signature, FAT blocks, root directory block, data blocks), the         *)
(* process-wide context `fs` (disk_file, fat_table, current_dir_block) and *)
(* one action per public operation.                                        *)
(*                                                                         *)
(* Geometry is scaled down.  The source has MAX_BLOCKS = 65536 = 2^16 and  *)
(* 16-bit FAT entries, so the three sentinels FREE/EOF/BAD are the three   *)
(* highest block indices; the model keeps exactly that relation at a       *)
(* smaller MAX_BLOCKS.                                                     *)
(*                                                                         *)
(* sizeof(DirectoryEntry) is 84 bytes and sizeof(Directory) is 10754 bytes,*)
(* while read_block/write_block move BLOCK_SIZE = 1024 bytes.  Of the 128  *)
(* slots of a `Directory` local only slots 0..11 are loaded from and       *)
(* stored to disk in full, slot 12 only with the first 16 bytes of its     *)
(* filename, and slots 13..127 and entry_count are never loaded: they are  *)
(* uninitialised stack memory.  The model keeps this split: FULL_SLOTS     *)
(* slots are persistent, slot FULL_SLOTS persists the first                 *)
(* PARTIAL_NAME_BYTES bytes of its name only, the rest are uninitialised   *)
(* and read as a nondeterministic value.                                   *)
(***************************************************************************)
EXTENDS Integers, Sequences, FiniteSets, TLC

\* ---------------------------------------------------------------- geometry
MAX_BLOCKS == 16
BLOCK_SIZE == 2
MAX_FILE_BLOCKS == 2
FAT_BLOCKS == 1
FULL_SLOTS == 2
MAX_FILES_IN_DIR == 4
MAX_FILENAME_SIZE == 5
PARTIAL_NAME_BYTES == 2
MaxOps == 4
MaxUninitOps == 1

FAT_ENTRY_FREE == MAX_BLOCKS - 1
FAT_ENTRY_EOF == MAX_BLOCKS - 2
FAT_ENTRY_BAD == MAX_BLOCKS - 3
TYPE_FILE == 0
TYPE_DIRECTORY == 1

root_dir_block == 1 + FAT_BLOCKS
data_start_block == root_dir_block + 1
total_blocks == MAX_BLOCKS

BlockIds == 0..(MAX_BLOCKS - 1)
DataBlocks == data_start_block..(total_blocks - 1)
MaxFileBytes == MAX_FILE_BLOCKS * BLOCK_SIZE

\* ------------------------------------------------------------------ inputs
NameSeq == <<"a", "b", "c", "d">>
Names == {NameSeq[i] : i \in 1..Len(NameSeq)}
MidNames == {"long"}
LongNames == {"toolong"}
TruncSizes == {0, 1, BLOCK_SIZE, BLOCK_SIZE + 1}
Paths == {"img", "missing"}

\* The C string `data` of length n: byte i of document s is 100 * s + i, never 0.
Data(s, n) == [i \in 1..n |-> 100 * s + i]

\* The data write_file is tried with: nothing, two documents of one byte, one
\* that fills MAX_FILE_BLOCKS blocks, and one that is a byte too long.
Docs == {Data(1, 0), Data(1, 1), Data(2, 1), Data(2, MaxFileBytes),
         Data(1, MaxFileBytes + 1)}

\* Values an uninitialised field of a Directory local may hold.
UninitTypes == {TYPE_FILE, TYPE_DIRECTORY}
UninitBlocks == {0, data_start_block, FAT_ENTRY_EOF}
UninitSizes == {0, BLOCK_SIZE + 1}
UninitCounts == {0, 1}

\* The write_block call of create_directory that fails in fwrite, if any: the
\* one that writes the new directory's block or the one that rewrites the
\* parent's.
WriteFaults == {"none", "new_dir", "parent"}

\* uint16_t arithmetic (2^16 = MAX_BLOCKS in the source's geometry).
U16(n) == n % MAX_BLOCKS

VARIABLES
  image,              \* the backing file: "absent", "foreign", "short" (signature
                      \* MYFATFS but no whole FAT) or "valid"
  diskFat,            \* FAT blocks 1..FAT_BLOCKS on disk
  diskDir,            \* the persistent part of the root directory block
  blocks,             \* contents of the data-region blocks on disk
  disk_file,          \* fs.disk_file # NULL
  fat_table,          \* fs.fat_table: "null", "valid" or "dangling" (freed, not reset)
  fat,                \* *fs.fat_table while it is valid
  current_dir_block,  \* fs.current_dir_block
  halted,             \* the process aborted on a double free
  last,               \* the last operation: its arguments, return value and output
  nops,               \* operations so far
  nuninit             \* mutating operations so far that acted on an uninitialised entry

vars == <<image, diskFat, diskDir, blocks, disk_file, fat_table, fat,
          current_dir_block, halted, last, nops, nuninit>>

\* ----------------------------------------------------------------- helpers
Min(S) == CHOOSE x \in S : \A y \in S : x <= y

ZeroEntry == [filename |-> "", file_size |-> 0, first_block |-> 0, type |-> 0]
ZeroBlock == [i \in 1..BLOCK_SIZE |-> 0]
NoFat == [b \in BlockIds |-> 0]
NoData == << >>

\* What format_partition builds: every entry FREE, the system region BAD.
FormatFat == [b \in BlockIds |-> IF b < data_start_block THEN FAT_ENTRY_BAD
                                                        ELSE FAT_ENTRY_FREE]
EmptyDir == [i \in 0..FULL_SLOTS |-> ZeroEntry]

\* The record of an operation: its name, arguments (name, data, size), return
\* value and output (read_file).  size is new_size for truncate_file and
\* strlen(data) for write_file, whose data is recorded once the call has
\* passed its tests.  count is the entry_count the operation left
\* in its Directory local (NoCount when it has none) and prevCount, for
\* delete_file and mount_partition, the one the operation before it left.
\* fault is the write_block call of create_directory that failed in fwrite.
\* For the console's format,
\* dirty says that the image held entries or allocated blocks; for
\* mount_partition, afterFormat and wasDirty say that it directly follows a
\* format, and what that format's dirty was.
NoCount == 0 - 1
Op(op, name, data, ret, out) ==
  [op |-> op, name |-> name, data |-> data, ret |-> ret, out |-> out,
   size |-> 0, count |-> NoCount, prevCount |-> NoCount, fault |-> "none",
   dirty |-> FALSE, afterFormat |-> FALSE, wasDirty |-> FALSE]

Mounted == disk_file

\* read_block / write_block without the test of fs.disk_file (mutant of BlockOk).
BlockOk_NoHandleTest(n) == n < total_blocks

\* read_block / write_block succeed iff a file is open and the block is in range.
BlockOk(n) == disk_file /\ n < total_blocks

\* The context as main leaves it (memset to 0) over an image that is absent,
\* foreign, cut short or freshly formatted, or the context right after the
\* console's "format img" and "mount img".
Init ==
  /\ image \in {"absent", "foreign", "short", "valid"}
  /\ diskFat = FormatFat
  /\ diskDir = EmptyDir
  /\ blocks = [b \in DataBlocks |-> ZeroBlock]
  /\ disk_file \in (IF image = "valid" THEN BOOLEAN ELSE {FALSE})
  /\ fat_table = IF disk_file THEN "valid" ELSE "null"
  /\ fat = IF disk_file THEN FormatFat ELSE NoFat
  /\ current_dir_block = IF disk_file THEN root_dir_block ELSE 0
  /\ halted = FALSE
  /\ last = Op("start", "", NoData, 0, NoData)
  /\ nops = 0
  /\ nuninit = 0

Step == ~halted /\ nops < MaxOps /\ nops' = nops + 1

\* ------------------------------------------------------- format and mounting
\* Some directory slot is occupied or some data block is allocated.
ImageDirty ==
  \/ \E i \in 0..FULL_SLOTS : diskDir[i].filename # ""
  \/ \E b \in DataBlocks : diskFat[b] # FAT_ENTRY_FREE

\* A format that zero-fills the image and rewrites the boot sector and the root
\* directory but leaves the FAT blocks as they were (mutant of create_partition).
create_partition_KeepsFat ==
  /\ Step
  /\ image' = "valid"
  /\ diskFat' = IF image = "valid" THEN diskFat ELSE FormatFat
  /\ diskDir' = EmptyDir
  /\ blocks' = [b \in DataBlocks |-> ZeroBlock]
  /\ last' = [Op("format", "", NoData, 0, NoData) EXCEPT
                !.count = 0, !.dirty = (image = "valid" /\ ImageDirty)]
  /\ UNCHANGED <<disk_file, fat_table, fat, current_dir_block, halted, nuninit>>

\* The console's "format": create_partition zero-fills the image, then
\* format_partition writes the boot sector, the FAT and sizeof(Directory) zero
\* bytes from the root directory block on.
create_partition ==
  /\ Step
  /\ image' = "valid"
  /\ diskFat' = FormatFat
  /\ diskDir' = EmptyDir
  /\ blocks' = [b \in DataBlocks |-> ZeroBlock]
  /\ last' = [Op("format", "", NoData, 0, NoData) EXCEPT
                !.count = 0, !.dirty = (image = "valid" /\ ImageDirty)]
  /\ UNCHANGED <<disk_file, fat_table, fat, current_dir_block, halted, nuninit>>

\* mount_partition: closes and frees what the context holds (without resetting
\* fat_table), then opens, checks the signature and loads the FAT.  Freeing a
\* dangling fat_table is a double free: the process aborts or carries on.
\* A failure at fopen or at the signature leaves fat_table as it was (freed, not
\* reset, if it was set); a failure while loading the FAT frees the new buffer
\* and leaves fat_table pointing at it.
mount_partition(path) ==
  /\ Step
  /\ \E abort \in (IF fat_table = "dangling" THEN BOOLEAN ELSE {FALSE}) :
       IF abort
       THEN /\ halted' = TRUE
            /\ last' = Op("mount", path, NoData, -1, NoData)
            /\ UNCHANGED <<disk_file, fat_table, fat, current_dir_block>>
       ELSE /\ halted' = FALSE
            /\ IF path = "img" /\ image = "valid"
               THEN /\ disk_file' = TRUE
                    /\ fat_table' = "valid"
                    /\ fat' = diskFat
                    /\ current_dir_block' = root_dir_block
                    /\ last' = [Op("mount", path, NoData, 0, NoData) EXCEPT
                                  !.prevCount = last.count,
                                  !.afterFormat = (last.op = "format"),
                                  !.wasDirty = last.dirty]
               ELSE /\ disk_file' = FALSE
                    /\ fat_table' = IF path = "img" /\ image = "short" THEN "dangling"
                                    ELSE IF fat_table = "null" THEN "null" ELSE "dangling"
                    /\ fat' = NoFat
                    /\ current_dir_block' = current_dir_block
                    /\ last' = Op("mount", path, NoData, -1, NoData)
  /\ UNCHANGED <<image, diskFat, diskDir, blocks, nuninit>>

unmount_partition ==
  /\ Step
  /\ \E abort \in (IF fat_table = "dangling" THEN BOOLEAN ELSE {FALSE}) :
       IF abort
       THEN /\ halted' = TRUE
            /\ UNCHANGED <<disk_file, fat_table, fat>>
       ELSE /\ halted' = FALSE
            /\ disk_file' = FALSE
            /\ fat_table' = "null"
            /\ fat' = NoFat
  /\ last' = Op("unmount", "", NoData, 0, NoData)
  /\ UNCHANGED <<image, diskFat, diskDir, blocks, current_dir_block, nuninit>>

\* ---------------------------------------------------------- FAT operations
\* allocate_block: first fit from data_start_block; the block found becomes EOF
\* and the whole FAT is written to disk.  The index is returned as a uint16_t.
allocate_block(f) ==
  LET free == {i \in DataBlocks : f[i] = FAT_ENTRY_FREE}
  IN  IF free = {}
      THEN [ret |-> FAT_ENTRY_FREE, fat |-> f, flushed |-> FALSE]
      ELSE [ret |-> U16(Min(free)),
            fat |-> [f EXCEPT ![Min(free)] = FAT_ENTRY_EOF],
            flushed |-> TRUE]

\* The loop of free_blocks: every block visited becomes FREE, until the
\* current index is EOF or FREE.  (The caller writes the FAT to disk.)
RECURSIVE free_blocks(_, _)
free_blocks(f, current_block) ==
  IF current_block = FAT_ENTRY_EOF \/ current_block = FAT_ENTRY_FREE
  THEN f
  ELSE free_blocks([f EXCEPT ![current_block] = FAT_ENTRY_FREE], f[current_block])

\* ---------------------------------------------------- directory operations
GarbageSlots == (FULL_SLOTS + 1)..(MAX_FILES_IN_DIR - 1)

\* The bytes of a name that slot FULL_SLOTS keeps on disk: the name and its
\* terminator if they fit in PARTIAL_NAME_BYTES bytes, else the first
\* PARTIAL_NAME_BYTES bytes of the name, without terminator.
Cut(name) ==
  IF Len(name) < PARTIAL_NAME_BYTES THEN name ELSE SubSeq(name, 1, PARTIAL_NAME_BYTES)
IsCut(stored) == Len(stored) >= PARTIAL_NAME_BYTES

\* find_file_in_directory: the lowest slot whose name matches.  Slots below
\* FULL_SLOTS hold whole names.  In slot FULL_SLOTS a name cut on disk is
\* followed by whatever the stack held: strcmp with a name that has the same
\* first bytes may or may not match.  A slot above holds whatever the stack
\* held, which may or may not equal the name (uninit: that case is explored).
find_file_in_directory(name, uninit) ==
  LET hits == {i \in 0..(FULL_SLOTS - 1) : diskDir[i].filename = name}
      part == diskDir[FULL_SLOTS].filename
      rest == {-1} \cup (IF uninit THEN GarbageSlots ELSE {})
  IN  IF hits # {} THEN {Min(hits)}
      ELSE IF part # "" /\ ~IsCut(part) /\ part = name THEN {FULL_SLOTS}
      ELSE IF IsCut(part) /\ Len(name) >= PARTIAL_NAME_BYTES /\ Cut(name) = part
           THEN {FULL_SLOTS} \cup rest
      ELSE rest

\* find_free_directory_entry: the lowest slot whose filename[0] is 0.
find_free_directory_entry ==
  LET free == {i \in 0..FULL_SLOTS : diskDir[i].filename = ""}
  IN  IF free # {} THEN {Min(free)} ELSE {-1} \cup GarbageSlots

\* The entry dir.entries[slot] of a Directory local filled by read_block: the
\* slot on disk, or the name with uninitialised size, first_block and type.
EntryViews(slot, name, uninit) ==
  IF slot < FULL_SLOTS
  THEN {diskDir[slot]}
  ELSE IF uninit
       THEN {[filename |-> name, file_size |-> sz, first_block |-> b, type |-> t] :
               sz \in UninitSizes, b \in UninitBlocks, t \in UninitTypes}
       ELSE {}

\* Uninitialised entries are explored in at most MaxUninitOps operations of a run.
UninitLeft == nuninit < MaxUninitOps

\* write_block(current_dir_block, &dir) after dir.entries[slot] became e.
StoreEntry(slot, e) ==
  IF slot < FULL_SLOTS THEN [diskDir EXCEPT ![slot] = e]
  ELSE IF slot = FULL_SLOTS
       THEN [diskDir EXCEPT ![slot] = [ZeroEntry EXCEPT !.filename = Cut(e.filename)]]
       ELSE diskDir

\* A mutating operation on an entry that is not wholly on disk.
UsesUninit(slot) == slot >= FULL_SLOTS
UninitStep(slot) ==
  IF UsesUninit(slot)
  THEN nuninit < MaxUninitOps /\ nuninit' = nuninit + 1
  ELSE nuninit' = nuninit

\* An early return -1 that has zeroed the first directory slot on disk (mutant
\* of Reject).
Reject_ZeroesSlot(rec) ==
  /\ last' = rec
  /\ diskDir' = [diskDir EXCEPT ![0] = ZeroEntry]
  /\ UNCHANGED <<image, diskFat, blocks, disk_file, fat_table, fat,
                 current_dir_block, halted, nuninit>>

\* An early return -1: nothing was written.  rec records the call.
Reject(rec) ==
  /\ last' = rec
  /\ UNCHANGED <<image, diskFat, diskDir, blocks, disk_file, fat_table, fat,
                 current_dir_block, halted, nuninit>>

Fail(op, name) == Reject(Op(op, name, NoData, -1, NoData))

\* --------------------------------------------------------- file operations
create_file(name) ==
  /\ Step
  /\ IF Len(name) >= MAX_FILENAME_SIZE \/ ~BlockOk(current_dir_block)
     THEN Fail("create", name)
     ELSE \E found \in find_file_in_directory(name, UninitLeft) :
            IF found >= 0
            THEN Fail("create", name)
            ELSE \E entry_index \in find_free_directory_entry :
                   IF entry_index < 0
                   THEN Fail("create", name)
                   ELSE \E c \in UninitCounts :
                          /\ diskDir' = StoreEntry(entry_index,
                                 [filename |-> name, file_size |-> 0,
                                  first_block |-> FAT_ENTRY_EOF, type |-> TYPE_FILE])
                          /\ last' = [Op("create", name, NoData, 0, NoData) EXCEPT
                                        !.count = U16(c + 1)]
                          /\ UNCHANGED <<image, diskFat, blocks, disk_file, fat_table,
                                         fat, current_dir_block, halted, nuninit>>

delete_file(name) ==
  /\ Step
  /\ IF ~BlockOk(current_dir_block)
     THEN Fail("delete", name)
     ELSE \E entry_index \in find_file_in_directory(name, UninitLeft) :
            IF entry_index < 0
            THEN Fail("delete", name)
            ELSE \E entry \in EntryViews(entry_index, name, UninitLeft) :
                   IF entry.type # TYPE_FILE
                   THEN Fail("delete", name)
                   ELSE \E c \in UninitCounts :
                          /\ UninitStep(entry_index)
                          /\ IF entry.first_block # FAT_ENTRY_EOF
                             THEN /\ fat' = free_blocks(fat, entry.first_block)
                                  /\ diskFat' = fat'
                             ELSE UNCHANGED <<fat, diskFat>>
                          /\ diskDir' = StoreEntry(entry_index, ZeroEntry)
                          /\ last' = [Op("delete", name, NoData, 0, NoData) EXCEPT
                                        !.count = U16(c + MAX_BLOCKS - 1),
                                        !.prevCount = last.count]
                          /\ UNCHANGED <<image, blocks, disk_file, fat_table,
                                         current_dir_block, halted>>

\* What read_block delivers for block n: a data block's bytes, or the raw bytes
\* of a system block (boot sector, FAT, root directory), written SysByte.
SysByte == 0 - 1
BlockBytes(blk, n) == IF n \in DataBlocks THEN blk[n] ELSE [i \in 1..BLOCK_SIZE |-> SysByte]

\* The loop of read_file: the bytes printed while current_block is not EOF and
\* bytes remain.
RECURSIVE read_loop(_, _, _, _)
read_loop(f, blk, current_block, bytes_remaining) ==
  IF current_block = FAT_ENTRY_EOF \/ bytes_remaining = 0
  THEN << >>
  ELSE LET bytes_to_print == IF bytes_remaining > BLOCK_SIZE THEN BLOCK_SIZE
                                                            ELSE bytes_remaining
       IN  SubSeq(BlockBytes(blk, current_block), 1, bytes_to_print)
             \o read_loop(f, blk, f[current_block], bytes_remaining - bytes_to_print)

\* Every (return value, output) read_file(name) can produce in this state;
\* uninit says whether it came from an entry that is not wholly on disk.
ReadResults(name) ==
  IF ~BlockOk(current_dir_block)
  THEN {[ret |-> -1, out |-> NoData, uninit |-> FALSE]}
  ELSE UNION {
         IF entry_index < 0
         THEN {[ret |-> -1, out |-> NoData, uninit |-> FALSE]}
         ELSE {IF entry.type # TYPE_FILE
               THEN [ret |-> -1, out |-> NoData, uninit |-> UsesUninit(entry_index)]
               ELSE IF entry.file_size = 0
                    THEN [ret |-> 0, out |-> NoData, uninit |-> UsesUninit(entry_index)]
                    ELSE [ret |-> 0,
                          out |-> read_loop(fat, blocks, entry.first_block, entry.file_size),
                          uninit |-> UsesUninit(entry_index)]
               : entry \in EntryViews(entry_index, name, TRUE)}
         : entry_index \in find_file_in_directory(name, TRUE)}

read_file(name) ==
  /\ Step
  /\ \E r \in ReadResults(name) :
       /\ IF r.uninit
          THEN nuninit < MaxUninitOps /\ nuninit' = nuninit + 1
          ELSE nuninit' = nuninit
       /\ last' = Op("read", name, NoData, r.ret, r.out)
  /\ UNCHANGED <<image, diskFat, diskDir, blocks, disk_file, fat_table, fat,
                 current_dir_block, halted>>

\* One block of data, zero-padded to BLOCK_SIZE.
Padded(chunk) == [i \in 1..BLOCK_SIZE |-> IF i <= Len(chunk) THEN chunk[i] ELSE 0]

\* The disk writes of one call, in order: the FAT blocks (with the FAT
\* written), a data block, the directory block.
FatWrite(f) == [kind |-> "fat", block |-> 1, fat |-> f]
DataWrite(b) == [kind |-> "data", block |-> b, fat |-> NoFat]
DirWrite == [kind |-> "dir", block |-> current_dir_block, fat |-> NoFat]

\* The allocation loop of write_file.  s holds the in-memory FAT, the FAT on
\* disk, the data blocks, the bytes still to write, first_block, prev_block
\* and the disk writes so far.
\* The link fat[prev_block] = new_block is made in memory only.
RECURSIVE write_loop(_)
write_loop(s) ==
  IF Len(s.rem) = 0
  THEN [s EXCEPT !.ok = TRUE]
  ELSE LET a == allocate_block(s.fat)
           dfat == IF a.flushed THEN a.fat ELSE s.dfat
       IN  IF a.ret = FAT_ENTRY_FREE
           THEN IF s.first # FAT_ENTRY_EOF
                THEN [s EXCEPT !.ok = FALSE,
                               !.fat = free_blocks(a.fat, s.first),
                               !.dfat = free_blocks(a.fat, s.first),
                               !.log = s.log \o <<FatWrite(free_blocks(a.fat, s.first))>>]
                ELSE [s EXCEPT !.ok = FALSE, !.fat = a.fat, !.dfat = dfat]
           ELSE LET bytes_to_write == IF Len(s.rem) > BLOCK_SIZE THEN BLOCK_SIZE
                                                                ELSE Len(s.rem)
                    linked == IF s.prev # FAT_ENTRY_EOF
                              THEN [a.fat EXCEPT ![s.prev] = a.ret]
                              ELSE a.fat
                IN  write_loop(
                      [ok |-> TRUE,
                       fat |-> linked,
                       dfat |-> dfat,
                       blk |-> [s.blk EXCEPT
                                  ![a.ret] = Padded(SubSeq(s.rem, 1, bytes_to_write))],
                       rem |-> SubSeq(s.rem, bytes_to_write + 1, Len(s.rem)),
                       first |-> IF s.first = FAT_ENTRY_EOF THEN a.ret ELSE s.first,
                       prev |-> a.ret,
                       log |-> s.log \o <<FatWrite(a.fat), DataWrite(a.ret)>>])

\* write_file once its tests have passed: the old chain is released, the loop
\* runs, the last block gets EOF; on success the directory block is written
\* and then the FAT.  w is the loop's result, final the FAT at the end, log
\* the disk writes of the call.
write_run(entry, data) ==
  LET freed == IF entry.first_block # FAT_ENTRY_EOF
               THEN free_blocks(fat, entry.first_block)
               ELSE fat
      w == write_loop(
             [ok |-> TRUE,
              fat |-> freed,
              dfat |-> IF entry.first_block # FAT_ENTRY_EOF THEN freed ELSE diskFat,
              blk |-> blocks,
              rem |-> data,
              first |-> FAT_ENTRY_EOF,
              prev |-> FAT_ENTRY_EOF,
              log |-> IF entry.first_block # FAT_ENTRY_EOF
                      THEN <<FatWrite(freed)>> ELSE << >>])
      final == IF w.prev # FAT_ENTRY_EOF
               THEN [w.fat EXCEPT ![w.prev] = FAT_ENTRY_EOF]
               ELSE w.fat
  IN  [w |-> w, final |-> final,
       log |-> IF w.ok THEN w.log \o <<DirWrite, FatWrite(final)>> ELSE w.log]

write_file(name, data) ==
  /\ Step
  /\ IF ~BlockOk(current_dir_block)
     THEN Fail("write", name)
     ELSE \E entry_index \in find_file_in_directory(name, UninitLeft) :
            IF entry_index < 0
            THEN Fail("write", name)
            ELSE \E entry \in EntryViews(entry_index, name, UninitLeft) :
                   IF entry.type # TYPE_FILE \/ Len(data) > MaxFileBytes
                   THEN Reject([Op("write", name, NoData, -1, NoData) EXCEPT
                                  !.size = Len(data)])
                   ELSE LET run == write_run(entry, data)
                            w == run.w
                            final == run.final
                        IN  /\ UninitStep(entry_index)
                            /\ blocks' = w.blk
                            /\ IF w.ok
                               THEN /\ fat' = final
                                    /\ diskFat' = final
                                    /\ diskDir' = StoreEntry(entry_index,
                                          [entry EXCEPT !.first_block = w.first,
                                                        !.file_size = Len(data)])
                                    /\ last' = [Op("write", name, data, 0, NoData) EXCEPT
                                                  !.size = Len(data)]
                               ELSE /\ fat' = w.fat
                                    /\ diskFat' = w.dfat
                                    /\ diskDir' = diskDir
                                    /\ last' = [Op("write", name, data, -1, NoData) EXCEPT
                                                  !.size = Len(data)]
                            /\ UNCHANGED <<image, disk_file, fat_table,
                                           current_dir_block, halted>>

\* The walk of truncate_file: blocks_needed steps from first_block, or fewer if
\* EOF comes first; <<prev_block, current_block>> at its end.
RECURSIVE truncate_walk(_, _, _, _)
truncate_walk(f, prev_block, current_block, steps) ==
  IF steps = 0 \/ current_block = FAT_ENTRY_EOF
  THEN <<prev_block, current_block>>
  ELSE truncate_walk(f, current_block, f[current_block], steps - 1)

truncate_file(name, new_size) ==
  /\ Step
  /\ IF ~BlockOk(current_dir_block)
     THEN Fail("truncate", name)
     ELSE \E entry_index \in find_file_in_directory(name, UninitLeft) :
            IF entry_index < 0
            THEN Fail("truncate", name)
            ELSE \E entry \in EntryViews(entry_index, name, UninitLeft) :
                   IF entry.type # TYPE_FILE \/ new_size > entry.file_size
                   THEN Reject([Op("truncate", name, NoData, -1, NoData) EXCEPT
                                  !.size = new_size])
                   ELSE IF new_size = entry.file_size
                   THEN /\ last' = [Op("truncate", name, NoData, 0, NoData) EXCEPT
                                      !.size = new_size]
                        /\ UNCHANGED <<image, diskFat, diskDir, blocks, disk_file,
                                       fat_table, fat, current_dir_block, halted, nuninit>>
                   ELSE LET blocks_needed == (new_size + BLOCK_SIZE - 1) \div BLOCK_SIZE
                            w == truncate_walk(fat, FAT_ENTRY_EOF, entry.first_block,
                                               blocks_needed)
                            prev_block == w[1]
                            current_block == w[2]
                            freed == free_blocks(fat, current_block)
                        IN  /\ UninitStep(entry_index)
                            /\ IF current_block # FAT_ENTRY_EOF
                               THEN /\ diskFat' = freed
                                    /\ fat' = IF prev_block # FAT_ENTRY_EOF
                                              THEN [freed EXCEPT ![prev_block] = FAT_ENTRY_EOF]
                                              ELSE freed
                               ELSE UNCHANGED <<fat, diskFat>>
                            /\ diskDir' = StoreEntry(entry_index,
                                            [entry EXCEPT !.file_size = new_size])
                            /\ last' = [Op("truncate", name, NoData, 0, NoData) EXCEPT
                                          !.size = new_size]
                            /\ UNCHANGED <<image, blocks, disk_file, fat_table,
                                           current_dir_block, halted>>

\* -------------------------------------------------- directory operations
\* The first BLOCK_SIZE bytes of the Directory that create_directory builds:
\* slot 0 is "." with first_block = the new block, slot 1 is ".." with
\* first_block = the parent's block, the rest is zero.
DotEntry(b) == 1000 + b
DotDotEntry(b) == 2000 + b
DirBlock(self, parent) ==
  [i \in 1..BLOCK_SIZE |-> IF i = 1 THEN DotEntry(self)
                           ELSE IF i = 2 THEN DotDotEntry(parent) ELSE 0]

\* create_directory; fault names the write_block call that fails in fwrite, if
\* any.  A failed write of the new block releases the block, a failed rewrite
\* of the parent's block returns with the new block written and allocated.
\* (fwrite failures are modelled in this operation only; a failed write leaves
\* the block on disk as it was.)
create_directory(name, fault) ==
  /\ Step
  /\ IF Len(name) >= MAX_FILENAME_SIZE \/ ~BlockOk(current_dir_block)
     THEN Fail("mkdir", name)
     ELSE \E found \in find_file_in_directory(name, UninitLeft) :
            IF found >= 0
            THEN Fail("mkdir", name)
            ELSE \E entry_index \in find_free_directory_entry :
                   IF entry_index < 0
                   THEN Fail("mkdir", name)
                   ELSE LET a == allocate_block(fat)
                            dir_block == a.ret
                        IN  /\ IF dir_block = FAT_ENTRY_FREE
                               THEN /\ fat' = a.fat
                                    /\ diskFat' = IF a.flushed THEN a.fat ELSE diskFat
                                    /\ last' = Op("mkdir", name, NoData, -1, NoData)
                                    /\ UNCHANGED <<diskDir, blocks>>
                               ELSE \E c \in UninitCounts :
                                      CASE fault = "new_dir" ->
                                             /\ fat' = free_blocks(a.fat, dir_block)
                                             /\ diskFat' = fat'
                                             /\ last' = [Op("mkdir", name, NoData, -1, NoData)
                                                           EXCEPT !.fault = fault]
                                             /\ UNCHANGED <<diskDir, blocks>>
                                        [] fault = "parent" ->
                                             /\ fat' = a.fat
                                             /\ diskFat' = a.fat
                                             /\ blocks' = [blocks EXCEPT ![dir_block] =
                                                   DirBlock(dir_block, current_dir_block)]
                                             /\ last' = [Op("mkdir", name, NoData, -1, NoData)
                                                           EXCEPT !.fault = fault]
                                             /\ UNCHANGED diskDir
                                        [] fault = "none" ->
                                             /\ fat' = a.fat
                                             /\ diskFat' = a.fat
                                             /\ blocks' = [blocks EXCEPT ![dir_block] =
                                                   DirBlock(dir_block, current_dir_block)]
                                             /\ diskDir' = StoreEntry(entry_index,
                                                   [filename |-> name,
                                                    file_size |->
                                                      IF entry_index < FULL_SLOTS
                                                      THEN diskDir[entry_index].file_size
                                                      ELSE 0,
                                                    first_block |-> dir_block,
                                                    type |-> TYPE_DIRECTORY])
                                             /\ last' = [Op("mkdir", name, NoData, 0, NoData)
                                                           EXCEPT !.count = U16(c + 1)]
                            /\ UNCHANGED <<image, disk_file, fat_table,
                                           current_dir_block, halted, nuninit>>

\* list_directory prints the occupied slots and changes nothing.
list_directory ==
  /\ Step
  /\ last' = Op("ls", "", NoData, IF BlockOk(current_dir_block) THEN 0 ELSE -1, NoData)
  /\ UNCHANGED <<image, diskFat, diskDir, blocks, disk_file, fat_table, fat,
                 current_dir_block, halted, nuninit>>

\* The names an operation is tried with.  The code only compares names and
\* takes their length, so one short name that is in no slot on disk stands for
\* all of them: the first such name of NameSeq.  Present are the names as the
\* directory block holds them, StoredNames the names whose entry is there
\* (whole, or cut in slot FULL_SLOTS).
Present == {diskDir[i].filename : i \in 0..FULL_SLOTS} \ {""}
StoredNames ==
  {n \in Names \cup MidNames :
     \/ \E i \in 0..(FULL_SLOTS - 1) : diskDir[i].filename = n
     \/ diskDir[FULL_SLOTS].filename = Cut(n)}
InputNames ==
  LET absent == {i \in 1..Len(NameSeq) : NameSeq[i] \notin StoredNames}
  IN  StoredNames \cup (IF absent = {} THEN {} ELSE {NameSeq[Min(absent)]})
\* A name of PARTIAL_NAME_BYTES or more bytes differs from a shorter one only
\* in slot FULL_SLOTS: it is tried when that is the slot a create would take.
CreateNames ==
  InputNames \cup LongNames
    \cup (IF \A i \in 0..(FULL_SLOTS - 1) : diskDir[i].filename # "" THEN MidNames ELSE {})

Next ==
  \/ create_partition
  \/ \E path \in Paths : mount_partition(path)
  \/ unmount_partition
  \/ \E name \in CreateNames : create_file(name)
  \/ \E name \in InputNames : delete_file(name)
  \/ \E name \in InputNames : read_file(name)
  \/ \E name \in InputNames, data \in Docs : write_file(name, data)
  \/ \E name \in InputNames, new_size \in TruncSizes : truncate_file(name, new_size)
  \/ \E name \in CreateNames : create_directory(name, "none")
  \/ list_directory

Spec == Init /\ [][Next]_vars

\* The behaviours in which no mutating operation and no read_file acts on an
\* entry that is not wholly on disk: what the code does without the help of
\* uninitialised size, first_block or type fields.
NextDefined == Next /\ nuninit' = nuninit
SpecDefined == Init /\ [][NextDefined]_vars

\* The same with the fwrite failures of create_directory.
NextFaulty ==
  \/ NextDefined
  \/ /\ \E name \in CreateNames, fault \in WriteFaults \ {"none"} :
          create_directory(name, fault)
     /\ nuninit' = nuninit
SpecFaulty == Init /\ [][NextFaulty]_vars

\* A mounted image whose data region is allocated up to the block before index
\* FAT_ENTRY_BAD.  The program gets there by writes to the entry of the slot
\* that is not wholly on disk (create a, b, c; write c again and again): each
\* such write allocates and fills blocks and stores no first_block, so the
\* next one, reading first_block as EOF, allocates the next free blocks.  Slot
\* 0 holds the empty file a, slot 1 the empty file b or nothing (b deleted),
\* slot FULL_SLOTS the name c.
NearFullFat ==
  [b \in BlockIds |-> IF b < data_start_block THEN FAT_ENTRY_BAD
                      ELSE IF b < FAT_ENTRY_BAD THEN FAT_ENTRY_EOF
                      ELSE FAT_ENTRY_FREE]
NearFullDirs ==
  LET file(n) == [filename |-> n, file_size |-> 0,
                  first_block |-> FAT_ENTRY_EOF, type |-> TYPE_FILE]
      dir(keep) == [i \in 0..FULL_SLOTS |->
                      IF i = 0 THEN file(NameSeq[1])
                      ELSE IF i = 1 /\ keep THEN file(NameSeq[2])
                      ELSE IF i = FULL_SLOTS
                           THEN [ZeroEntry EXCEPT !.filename = NameSeq[3]]
                           ELSE ZeroEntry]
  IN  {dir(keep) : keep \in BOOLEAN}
InitNearFull ==
  /\ image = "valid"
  /\ diskFat = NearFullFat
  /\ diskDir \in NearFullDirs
  /\ blocks = [b \in DataBlocks |-> IF b < FAT_ENTRY_BAD THEN Padded(Data(1, 1))
                                                        ELSE ZeroBlock]
  /\ disk_file = TRUE
  /\ fat_table = "valid"
  /\ fat = NearFullFat
  /\ current_dir_block = root_dir_block
  /\ halted = FALSE
  /\ last = Op("start", "", NoData, 0, NoData)
  /\ nops = 0
  /\ nuninit = 0
SpecNearFull == InitNearFull /\ [][NextDefined]_vars

\* A mounted image that was not made by this program's operations: the file
\* has the signature and a FAT in which the chain of file a (slot 0,
\* MAX_FILE_BLOCKS blocks by its size) is cyclic, or runs into a FREE entry,
\* into index FAT_ENTRY_BAD or into the system region.  mount_partition loads
\* any FAT that follows the signature; the mount is the first operation.
ForeignFats ==
  LET b0 == data_start_block
      b1 == data_start_block + 1
      link(x, y) == [FormatFat EXCEPT ![b0] = x, ![b1] = y]
  IN  {link(b1, b0), link(b0, FAT_ENTRY_FREE), link(b1, FAT_ENTRY_FREE),
       link(FAT_ENTRY_BAD, FAT_ENTRY_FREE), link(0, FAT_ENTRY_FREE)}
InitForeign ==
  /\ image = "valid"
  /\ diskFat \in ForeignFats
  /\ diskDir = [EmptyDir EXCEPT ![0] =
                  [filename |-> NameSeq[1], file_size |-> MaxFileBytes,
                   first_block |-> data_start_block, type |-> TYPE_FILE]]
  /\ blocks = [b \in DataBlocks |-> Padded(Data(1, 1))]
  /\ disk_file = TRUE
  /\ fat_table = "valid"
  /\ fat = diskFat
  /\ current_dir_block = root_dir_block
  /\ halted = FALSE
  /\ last = Op("start", "", NoData, 0, NoData)
  /\ nops = 1
  /\ nuninit = 0
SpecForeign == InitForeign /\ [][NextDefined]_vars

\* ------------------------------------------------------------- properties
\* The blocks met from head through f, up to n of them, until the link is a
\* sentinel.
RECURSIVE Chain(_, _, _)
Chain(f, head, n) ==
  IF n = 0 \/ head \in {FAT_ENTRY_EOF, FAT_ENTRY_FREE, FAT_ENTRY_BAD}
  THEN << >>
  ELSE <<head>> \o Chain(f, f[head], n - 1)

ChainOf(f, head) == Chain(f, head, MAX_BLOCKS)
ChainSet(f, head) == {ChainOf(f, head)[i] : i \in 1..Len(ChainOf(f, head))}
Last(c) == c[Len(c)]

\* The chain from head ends at EOF and holds only in-range blocks whose FAT
\* entry is neither FREE nor BAD.
ChainWellFormed(f, head) ==
  \/ head = FAT_ENTRY_EOF
  \/ /\ ChainOf(f, head) # << >>
     /\ \A b \in ChainSet(f, head) : b < total_blocks /\ f[b] \notin {FAT_ENTRY_FREE, FAT_ENTRY_BAD}
     /\ f[Last(ChainOf(f, head))] = FAT_ENTRY_EOF

CeilBlocks(n) == (n + BLOCK_SIZE - 1) \div BLOCK_SIZE

\* The slots that are wholly on disk, by type.
FileSlots == {i \in 0..(FULL_SLOTS - 1) :
                diskDir[i].filename # "" /\ diskDir[i].type = TYPE_FILE}
DirSlots == {i \in 0..(FULL_SLOTS - 1) :
               diskDir[i].filename # "" /\ diskDir[i].type = TYPE_DIRECTORY}
SlotOf(dir, name) == {i \in 0..(FULL_SLOTS - 1) : dir[i].filename = name}

\* C1 (as claimed): after a successful write_file(name, data) to a file whose
\* name is in the directory block, every result an immediately following
\* read_file(name) can produce is success with exactly data.
C1_RoundTrip ==
  (last.op = "write" /\ last.ret = 0 /\ last.name \in Present)
    => \A r \in ReadResults(last.name) : r.ret = 0 /\ r.out = last.data

\* C2 (as claimed): while an image is mounted, the chain of every file entry
\* ends at EOF and holds no FREE or BAD block and no out-of-range index.
C2_ChainsWellFormed ==
  disk_file => \A i \in FileSlots : ChainWellFormed(fat, diskDir[i].first_block)

\* C3 (as claimed): no block is in the chains of two entries, and no
\* directory's own block is part of a file's chain.
C3_NoAliasing ==
  disk_file =>
    /\ \A i, j \in FileSlots :
         i # j => ChainSet(fat, diskDir[i].first_block)
                    \cap ChainSet(fat, diskDir[j].first_block) = {}
    /\ \A i \in FileSlots, d \in DirSlots :
         diskDir[d].first_block \notin ChainSet(fat, diskDir[i].first_block)

\* C4 (as claimed): a successful truncate_file(name, k) with k < file_size, on
\* an entry that is wholly on disk, leaves the first k bytes, file_size = k, a
\* chain of ceil(k / BLOCK_SIZE) blocks ending at EOF, the cut blocks FREE, and
\* first_block = EOF when k = 0.
C4_Truncate ==
  [][\A i \in SlotOf(diskDir, last'.name) :
       (/\ last'.op = "truncate" /\ last'.ret = 0
        /\ diskDir[i].type = TYPE_FILE
        /\ last'.size < diskDir[i].file_size
        /\ ChainWellFormed(fat, diskDir[i].first_block)
        /\ Len(ChainOf(fat, diskDir[i].first_block)) = CeilBlocks(diskDir[i].file_size))
       => /\ diskDir'[i].file_size = last'.size
          /\ read_loop(fat', blocks', diskDir'[i].first_block, diskDir'[i].file_size)
               = SubSeq(read_loop(fat, blocks, diskDir[i].first_block,
                                  diskDir[i].file_size), 1, last'.size)
          /\ ChainWellFormed(fat', diskDir'[i].first_block)
          /\ Len(ChainOf(fat', diskDir'[i].first_block)) = CeilBlocks(last'.size)
          /\ \A b \in ChainSet(fat, diskDir[i].first_block) :
               b \notin ChainSet(fat', diskDir'[i].first_block)
                 => fat'[b] = FAT_ENTRY_FREE
          /\ (last'.size = 0 => diskDir'[i].first_block = FAT_ENTRY_EOF)]_vars

\* C5 (as claimed): every file entry has file_size = 0 iff first_block = EOF,
\* and a chain of ceil(file_size / BLOCK_SIZE) blocks when file_size > 0.
C5_SizeMatchesChain ==
  disk_file =>
    \A i \in FileSlots :
      /\ (diskDir[i].file_size = 0) <=> (diskDir[i].first_block = FAT_ENTRY_EOF)
      /\ diskDir[i].file_size > 0
           => Len(ChainOf(fat, diskDir[i].first_block)) = CeilBlocks(diskDir[i].file_size)

\* C6 (as claimed): a successful delete_file(name) leaves every block of the
\* file's chain FREE, the slot all zero, and entry_count one less than the
\* operation before it left it.
C6_Delete ==
  [][\A i \in SlotOf(diskDir, last'.name) :
       (last'.op = "delete" /\ last'.ret = 0)
       => /\ \A b \in ChainSet(fat, diskDir[i].first_block) : fat'[b] = FAT_ENTRY_FREE
          /\ diskDir'[i] = ZeroEntry
          /\ SlotOf(diskDir', last'.name) = {}
          /\ (last.count # NoCount => last'.count = U16(last.count + MAX_BLOCKS - 1))]_vars

\* C7 (as claimed): an operation that starts with the FAT on disk equal to the
\* FAT in memory and returns leaves them equal, so that unmount followed by
\* mount loads the FAT the context had.
C7_FatPersisted ==
  [][(/\ disk_file /\ disk_file' /\ fat = diskFat
      /\ last'.op \in {"create", "write", "truncate", "delete", "mkdir"})
     => fat' = diskFat']_vars

\* C8 (as claimed): a data block is FREE iff it is in no entry's chain and is
\* no directory's own block; every file or directory operation keeps it so.
Referenced ==
  UNION {ChainSet(fat, diskDir[i].first_block) : i \in FileSlots}
    \cup {diskDir[d].first_block : d \in DirSlots}
FreeIffUnreferenced ==
  \A b \in DataBlocks : (fat[b] = FAT_ENTRY_FREE) <=> (b \notin Referenced)
C8_FreeIffUnreferenced ==
  [][(/\ disk_file /\ disk_file' /\ FreeIffUnreferenced
      /\ last'.op \in {"create", "delete", "read", "write", "truncate", "mkdir", "ls"})
     => FreeIffUnreferenced']_vars

SystemRegionBad ==
  \A b \in 0..(data_start_block - 1) :
    /\ diskFat[b] = FAT_ENTRY_BAD
    /\ (fat_table = "valid" => fat[b] = FAT_ENTRY_BAD)
C10_SystemRegionBad ==
  [][(image = "valid" /\ SystemRegionBad /\ last'.name \in Present) => SystemRegionBad']_vars

\* C11: a file or directory operation invoked while no image is mounted (before
\* the first mount, after unmount, after a failed mount) returns an error and
\* changes neither the image on disk nor the FAT in memory nor the context.
FileOps == {"create", "delete", "read", "write", "truncate", "mkdir", "ls"}
C11_UnmountedOpsFail ==
  [][(~disk_file /\ last'.op \in FileOps)
     => /\ last'.ret = -1
        /\ UNCHANGED <<image, diskFat, diskDir, blocks, disk_file, fat_table, fat,
                       current_dir_block>>]_vars

\* C11 witness: a file operation was rejected after a mount that failed on a
\* context that had an image mounted.
C11_Witness ==
  /\ last.op \in {"create", "write", "mkdir"} /\ last.ret = -1
  /\ Len(last.name) < MAX_FILENAME_SIZE
  /\ ~disk_file /\ fat_table = "dangling"

\* C12 (as claimed): no mount or unmount call releases a FAT buffer that was
\* already released (the call does not start with a stale pointer and the
\* process does not abort), and after unmount or a failed mount the context
\* holds no file handle and no FAT buffer.
C12_ReleasedOnce ==
  [][(last'.op \in {"mount", "unmount"})
     => /\ fat_table # "dangling"
        /\ ~halted'
        /\ (~disk_file' => fat_table' = "null")]_vars

\* C13 (as claimed): the block whose index is the value of FREE is never marked
\* allocated, and no block index that allocate returned is taken for a marker:
\* a file that holds data does not have first_block equal to EOF or FREE, and
\* its chain, walked until the EOF marker, has ceil(file_size / BLOCK_SIZE)
\* blocks.
RECURSIVE WalkLen(_, _, _)
WalkLen(f, current_block, n) ==
  IF n = 0 \/ current_block = FAT_ENTRY_EOF THEN 0
  ELSE 1 + WalkLen(f, f[current_block], n - 1)
C13_NoSentinelBlock ==
  (disk_file /\ last.op \in {"write", "mkdir"})
    => /\ fat[FAT_ENTRY_FREE] = FAT_ENTRY_FREE
       /\ \A i \in SlotOf(diskDir, last.name) :
            /\ (last.op = "write" /\ last.ret = 0 /\ Len(last.data) > 0)
                 => /\ diskDir[i].first_block \notin {FAT_ENTRY_EOF, FAT_ENTRY_FREE}
                    /\ WalkLen(fat, diskDir[i].first_block, MAX_BLOCKS)
                         = CeilBlocks(Len(last.data))
            /\ (last.op = "mkdir" /\ last.ret = 0)
                 => diskDir[i].first_block \notin {FAT_ENTRY_EOF, FAT_ENTRY_FREE}

\* What a later operation reads for name: the slots find_file_in_directory
\* can return and the entries read_block can deliver there.
LaterSlots(name) == find_file_in_directory(name, TRUE)
LaterViews(name) ==
  UNION {EntryViews(i, name, TRUE) : i \in LaterSlots(name) \ {-1}}
NewFile(name) ==
  [filename |-> name, file_size |-> 0, first_block |-> FAT_ENTRY_EOF, type |-> TYPE_FILE]

\* C14 (as claimed): every slot of the directory is usable: an entry whose name
\* is in the directory is found by later operations with one stored type,
\* file_size and first_block, and after a successful create_file these are
\* FILE, 0 and EOF.
C14_SlotsUsable ==
  disk_file =>
    /\ \A name \in Present :
         -1 \notin LaterSlots(name) /\ Cardinality(LaterViews(name)) = 1
    /\ (last.op = "create" /\ last.ret = 0 /\ last.name \in Present)
         => LaterViews(last.name) = {NewFile(last.name)}

\* C15 (as claimed): after a successful create_file(name) or mkdir(name) the
\* name is found; a file's entry has file_size 0, first_block EOF and type
\* FILE; a directory's entry has type DIRECTORY and first_block an allocated
\* block that holds "." -> itself and ".." -> the parent's block.
C15_CreatePost ==
  (disk_file /\ last.op \in {"create", "mkdir"} /\ last.ret = 0)
    => /\ -1 \notin LaterSlots(last.name)
       /\ LaterViews(last.name) # {}
       /\ last.op = "create" => LaterViews(last.name) = {NewFile(last.name)}
       /\ last.op = "mkdir" =>
            \A e \in LaterViews(last.name) :
              /\ e.type = TYPE_DIRECTORY
              /\ e.first_block \in DataBlocks
              /\ fat[e.first_block] = FAT_ENTRY_EOF
              /\ blocks[e.first_block] = DirBlock(e.first_block, current_dir_block)

\* C16 (as claimed): the names in the occupied slots of the directory block
\* are pairwise distinct, and create_file and mkdir of a name whose entry is
\* in the directory fail and change nothing.
NamesDistinct ==
  \A i, j \in 0..FULL_SLOTS :
    (i # j /\ diskDir[i].filename # "") => diskDir[i].filename # diskDir[j].filename
C16_NamesUnique ==
  [][/\ NamesDistinct'
     /\ (disk_file /\ last'.op \in {"create", "mkdir"} /\ last'.name \in StoredNames)
          => /\ last'.ret = -1
             /\ UNCHANGED <<diskFat, diskDir, blocks, fat>>]_vars

\* C17: an operation rejected for a precondition error (a missing name, a
\* directory where a file is needed, data longer than
\* MAX_FILE_BLOCKS * BLOCK_SIZE, a new size above file_size, a name of
\* MAX_FILENAME_SIZE or more characters) leaves the FAT, in memory and on
\* disk, the directory block and the data blocks unchanged; too long data and
\* too long names are rejected, as are operations on a directory and a growing
\* truncate for entries that are wholly in the directory block, while data of
\* exactly MAX_FILE_BLOCKS * BLOCK_SIZE bytes is written when that many blocks
\* are free.
IsDirectory(name) == \E i \in SlotOf(diskDir, name) : diskDir[i].type = TYPE_DIRECTORY
IsFile(name) == \E i \in SlotOf(diskDir, name) : diskDir[i].type = TYPE_FILE
FreeCount == Cardinality({b \in DataBlocks : fat[b] = FAT_ENTRY_FREE})
C17_RejectedUnchanged ==
  [][disk_file =>
     /\ (/\ last'.ret = -1
         /\ \/ last'.op \in {"delete", "read", "truncate", "create"}
            \/ /\ last'.op = "write"
               /\ \/ last'.name \notin StoredNames
                  \/ IsDirectory(last'.name)
                  \/ last'.size > MaxFileBytes
            \/ last'.op = "mkdir" /\ Len(last'.name) >= MAX_FILENAME_SIZE)
        => UNCHANGED <<diskFat, diskDir, blocks, fat>>
     /\ (last'.op = "write" /\ last'.size > MaxFileBytes) => last'.ret = -1
     /\ (last'.op \in {"create", "mkdir"} /\ Len(last'.name) >= MAX_FILENAME_SIZE)
          => last'.ret = -1
     /\ (last'.op \in {"delete", "read", "write", "truncate"} /\ IsDirectory(last'.name))
          => last'.ret = -1
     /\ (\E i \in SlotOf(diskDir, last'.name) :
           /\ last'.op = "truncate" /\ diskDir[i].type = TYPE_FILE
           /\ last'.size > diskDir[i].file_size)
          => last'.ret = -1
     /\ (/\ last'.op = "write" /\ IsFile(last'.name)
         /\ last'.size = MaxFileBytes /\ FreeCount >= MAX_FILE_BLOCKS)
          => last'.ret = 0]_vars

\* C17 witness: a write_file of one byte too many was rejected on a file that
\* holds data.
C17_Witness ==
  /\ disk_file /\ last.op = "write" /\ last.ret = -1
  /\ last.size = MaxFileBytes + 1
  /\ \E i \in SlotOf(diskDir, last.name) :
       diskDir[i].type = TYPE_FILE /\ diskDir[i].file_size = MaxFileBytes

\* C18 (as claimed): read_file of a file whose chain disagrees with its size
\* (the blocks reachable from first_block before EOF are not
\* ceil(file_size / BLOCK_SIZE), or the walk meets FREE or BAD) fails and
\* changes nothing.
ChainAgrees(e) ==
  /\ ChainWellFormed(fat, e.first_block)
  /\ Len(ChainOf(fat, e.first_block)) = CeilBlocks(e.file_size)
C18_ChainCorrupt ==
  [][(\E i \in SlotOf(diskDir, last'.name) :
        /\ disk_file /\ last'.op = "read"
        /\ diskDir[i].type = TYPE_FILE
        /\ ~ChainAgrees(diskDir[i]))
     => /\ last'.ret = -1
        /\ UNCHANGED <<diskFat, diskDir, blocks, fat>>]_vars

\* C19 (as claimed): in a successful write_file, each data block of the new
\* chain is written to disk before a FAT that links its predecessor to it, and
\* when the directory block is written the FAT on disk already holds every
\* link of the new chain, the final EOF included.
First(S, n) == Min(S \cup {n + 1})
DataAt(log, b) == First({k \in 1..Len(log) : log[k] = DataWrite(b)}, Len(log))
LinkAt(log, p, b) ==
  First({k \in 1..Len(log) : log[k].kind = "fat" /\ log[k].fat[p] = b}, Len(log))
DirAt(log) == First({k \in 1..Len(log) : log[k] = DirWrite}, Len(log))
DiskFatBefore(log, k) ==
  LET w == {j \in 1..(k - 1) : log[j].kind = "fat"}
  IN  IF w = {} THEN diskFat ELSE log[CHOOSE j \in w : \A i \in w : i <= j].fat
WriteOrdered(run) ==
  LET chain == ChainOf(run.final, run.w.first)
  IN  /\ \A n \in 2..Len(chain) :
           DataAt(run.log, chain[n]) < LinkAt(run.log, chain[n - 1], chain[n])
      /\ \A n \in 1..Len(chain) :
           /\ DataAt(run.log, chain[n]) < DirAt(run.log)
           /\ DiskFatBefore(run.log, DirAt(run.log))[chain[n]] = run.final[chain[n]]
C19_WriteOrder ==
  [][\A i \in SlotOf(diskDir, last'.name) :
       (disk_file /\ last'.op = "write" /\ last'.ret = 0
        /\ diskDir[i].type = TYPE_FILE)
       => WriteOrdered(write_run(diskDir[i], last'.data))]_vars

\* The FAT after n first-fit allocations chained after prev (NoCount: none):
\* each takes the lowest FREE data block, marks it EOF and links it.
FreeIn(f) == {b \in DataBlocks : f[b] = FAT_ENTRY_FREE}
RECURSIVE FirstFit(_, _, _)
FirstFit(f, n, prev) ==
  IF n = 0 THEN f
  ELSE LET i == Min(FreeIn(f))
           g == [f EXCEPT ![i] = FAT_ENTRY_EOF]
       IN  FirstFit(IF prev = NoCount THEN g ELSE [g EXCEPT ![prev] = i], n - 1, i)

\* C20 (as claimed): allocation is first-fit and exact.  A write_file that
\* needs n blocks succeeds when at least n data blocks are FREE once the old
\* chain is released, takes the n lowest FREE blocks in order, changes no
\* other FAT entry and leaves that FAT on disk; with fewer FREE blocks it
\* fails and leaves the FAT as the release made it.  A create_directory that
\* succeeds takes the lowest FREE block, one that fails with every write_block
\* call succeeding changes no FAT entry.
C20_AllocateExact ==
  [][/\ \A i \in SlotOf(diskDir, last'.name) :
          (disk_file /\ last'.op = "write" /\ diskDir[i].type = TYPE_FILE
           /\ last'.size <= MaxFileBytes)
          => LET freed == IF diskDir[i].first_block # FAT_ENTRY_EOF
                          THEN free_blocks(fat, diskDir[i].first_block)
                          ELSE fat
                 n == CeilBlocks(last'.size)
             IN  IF Cardinality(FreeIn(freed)) >= n
                 THEN /\ last'.ret = 0
                      /\ fat' = FirstFit(freed, n, NoCount)
                      /\ diskFat' = fat'
                 ELSE /\ last'.ret = 0 - 1
                      /\ fat' = freed
     /\ (disk_file /\ last'.op = "mkdir" /\ last'.fault = "none")
          => IF last'.ret = 0
             THEN /\ FreeIn(fat) # {}
                  /\ fat' = FirstFit(fat, 1, NoCount)
                  /\ diskFat' = fat'
             ELSE fat' = fat]_vars

\* The FAT write_file starts building the new chain from: the old chain of
\* entry released.
Released(entry) ==
  IF entry.first_block # FAT_ENTRY_EOF THEN free_blocks(fat, entry.first_block) ELSE fat

\* C21 (as claimed): when write_file fails for want of space while building
\* the new chain, every data block that was FREE when chain building started
\* is FREE again when it returns, in memory and on disk.
C21_PartialChainFreed ==
  [][\A i \in SlotOf(diskDir, last'.name) :
       (disk_file /\ last'.op = "write" /\ last'.ret = 0 - 1
        /\ diskDir[i].type = TYPE_FILE /\ last'.size <= MaxFileBytes)
       => /\ FreeIn(Released(diskDir[i])) \subseteq FreeIn(fat')
          /\ FreeIn(Released(diskDir[i])) \subseteq FreeIn(diskFat')]_vars

\* C22 (as claimed): a create_directory that fails after its block was
\* allocated (a write_block call failed) leaves the block FREE, in memory and
\* on disk, and the parent directory without an entry for the name; one that
\* fails before leaves the FAT, in memory and on disk, as it was.
C22_MkdirUnwinds ==
  [][(disk_file /\ last'.op = "mkdir" /\ last'.ret = 0 - 1)
     => IF last'.fault = "none"
        THEN fat' = fat /\ diskFat' = diskFat
        ELSE /\ FreeIn(fat) \subseteq FreeIn(fat')
             /\ FreeIn(fat) \subseteq FreeIn(diskFat')
             /\ last'.name \notin StoredNames']_vars

\* The iterations of the three chain walks, counted up to fuel.
\* free_blocks with a loop that follows the links without marking the blocks
\* FREE (mutant of FreeSteps).
RECURSIVE FreeSteps_NoRelease(_, _, _)
FreeSteps_NoRelease(f, current_block, fuel) ==
  IF fuel = 0 \/ current_block = FAT_ENTRY_EOF \/ current_block = FAT_ENTRY_FREE
  THEN 0
  ELSE 1 + FreeSteps_NoRelease(f, f[current_block], fuel - 1)

\* free_blocks: one iteration per block visited, each marked FREE.
RECURSIVE FreeSteps(_, _, _)
FreeSteps(f, current_block, fuel) ==
  IF fuel = 0 \/ current_block = FAT_ENTRY_EOF \/ current_block = FAT_ENTRY_FREE
  THEN 0
  ELSE 1 + FreeSteps([f EXCEPT ![current_block] = FAT_ENTRY_FREE], f[current_block],
                     fuel - 1)

\* read_file: one iteration per block printed.
RECURSIVE ReadSteps(_, _, _, _)
ReadSteps(f, current_block, bytes_remaining, fuel) ==
  IF fuel = 0 \/ current_block = FAT_ENTRY_EOF \/ bytes_remaining = 0
  THEN 0
  ELSE 1 + ReadSteps(f, f[current_block],
                     IF bytes_remaining > BLOCK_SIZE THEN bytes_remaining - BLOCK_SIZE
                                                     ELSE 0,
                     fuel - 1)

\* truncate_file: one iteration per block kept.
RECURSIVE TruncSteps(_, _, _, _)
TruncSteps(f, current_block, i, blocks_needed) ==
  IF ~(i < blocks_needed) \/ current_block = FAT_ENTRY_EOF
  THEN 0
  ELSE 1 + TruncSteps(f, f[current_block], i + 1, blocks_needed)

\* C23: every chain walk ends, whatever the FAT holds.  From any head the
\* loop of free_blocks makes at most MAX_BLOCKS iterations (one per FAT entry);
\* for every file entry the loop of read_file makes at most
\* ceil(file_size / BLOCK_SIZE) iterations and the walk of truncate_file at
\* most ceil(new_size / BLOCK_SIZE); the operations that walk a chain return
\* 0 or -1.
C23_WalksTerminate ==
  disk_file =>
    /\ \A head \in BlockIds : FreeSteps(fat, head, MAX_BLOCKS + 1) <= MAX_BLOCKS
    /\ \A i \in FileSlots :
         /\ ReadSteps(fat, diskDir[i].first_block, diskDir[i].file_size,
                      CeilBlocks(diskDir[i].file_size) + 1)
              <= CeilBlocks(diskDir[i].file_size)
         /\ \A new_size \in TruncSizes :
              TruncSteps(fat, diskDir[i].first_block, 0, CeilBlocks(new_size))
                <= CeilBlocks(new_size)
    /\ last.op \in {"delete", "read", "write", "truncate"} => last.ret \in {0, 0 - 1}

\* C23 witness: read_file has returned the MAX_FILE_BLOCKS blocks of a file
\* whose chain is a cycle.
C23_Witness ==
  /\ disk_file /\ last.op = "read" /\ last.ret = 0
  /\ Len(last.out) = MaxFileBytes
  /\ \E i \in SlotOf(diskDir, last.name) :
       /\ diskDir[i].type = TYPE_FILE /\ diskDir[i].file_size = MaxFileBytes
       /\ Len(ChainOf(fat, diskDir[i].first_block)) = MAX_BLOCKS

\* The blocks the loop of read_file visits for an entry.
RECURSIVE ReadBlocks(_, _, _)
ReadBlocks(f, current_block, bytes_remaining) ==
  IF current_block = FAT_ENTRY_EOF \/ bytes_remaining = 0
  THEN {}
  ELSE {current_block}
         \cup ReadBlocks(f, f[current_block],
                          IF bytes_remaining > BLOCK_SIZE
                          THEN bytes_remaining - BLOCK_SIZE ELSE 0)

\* C24 (as claimed): delete_file, write_file and truncate_file of one file
\* leave every other file of the directory as it was: its directory entry, the
\* FAT entries of its chain, in memory and on disk, and the bytes read_file
\* returns for it.
C24_FrameOtherFiles ==
  [][(disk_file /\ last'.op \in {"delete", "write", "truncate"})
     => \A j \in FileSlots :
          diskDir[j].filename # last'.name
          => /\ diskDir'[j] = diskDir[j]
             /\ \A b \in ReadBlocks(fat, diskDir[j].first_block, diskDir[j].file_size) :
                  fat'[b] = fat[b] /\ diskFat'[b] = diskFat[b]
             /\ read_loop(fat', blocks', diskDir[j].first_block, diskDir[j].file_size)
                  = read_loop(fat, blocks, diskDir[j].first_block, diskDir[j].file_size)]_vars

\* C25 (as claimed): a write_file that fails for want of space on a file that
\* holds data leaves the file as it was: the directory entry is unchanged, the
\* blocks it designates are still allocated, with the links they had, in
\* memory and on disk, and read_file returns the same bytes as before.
C25_FailedWriteKeepsFile ==
  [][\A i \in SlotOf(diskDir, last'.name) :
       (disk_file /\ last'.op = "write" /\ last'.ret = 0 - 1
        /\ diskDir[i].type = TYPE_FILE /\ last'.size <= MaxFileBytes
        /\ diskDir[i].file_size > 0)
       => /\ diskDir'[i] = diskDir[i]
          /\ \A b \in ReadBlocks(fat, diskDir[i].first_block, diskDir[i].file_size) :
               /\ fat'[b] # FAT_ENTRY_FREE /\ diskFat'[b] # FAT_ENTRY_FREE
               /\ fat'[b] = fat[b]
          /\ read_loop(fat', blocks', diskDir[i].first_block, diskDir[i].file_size)
               = read_loop(fat, blocks, diskDir[i].first_block, diskDir[i].file_size)]_vars
====
